---- MODULE Spec2Model ----
(***************************************************************************)
(* Dynamic upstream discovery for a reverse proxy: the DynamicSD dispatch  *)
(* layer (dynamic_sd/module.go), the provider factory                      *)
(* (internal/providers/provider.go) and the three providers: Nacos         *)
(* (registry push), Consul (registry poll) and mDNS (broadcast listen).    *)
(*                                                                         *)
(* Every provider keeps its upstream list in a slice guarded by a          *)
(* sync.RWMutex.  A slice header (data pointer, length) is written word by *)
(* word, so the model writes it in two steps; the mutex is what keeps the  *)
(* state between the two steps from readers.                               *)
(*                                                                         *)
(* A run is explored under a workload, fixed in the initial state: what    *)
(* the environment has in store for the program.  The lifecycle workload   *)
(* loads any configuration and cleans up repeatedly, with little traffic;  *)
(* the traffic workload loads a complete configuration and has concurrent  *)
(* membership changes under concurrent requests; the content workload has  *)
(* longer instance lists, one change and one request at a time; the churn  *)
(* workload has more changes of short lists; the shutdown workload is a    *)
(* short run that is cleaned up once, explored under the fairness the Go   *)
(* runtime gives; the factory workload has a block with two provider       *)
(* directives, of any name.                                                *)
(***************************************************************************)
EXTENDS Integers, Sequences, FiniteSets, TLC

\* ------------------------------------------------------------------ bounds

\* Traffic and content workloads: store replacements started in one run.
MaxReplaces == 2
\* Content workload: longest instance list of a notification or an answer.
MaxInst == 2
\* Lifecycle workload: Cleanup calls the host makes in one run.
MaxCleanups == 2
\* Lifecycle workload: store replacements started in one run.
FewReplaces == 1
\* Lifecycle and traffic workloads: longest instance list.
FewInst == 1
\* Churn workload: store replacements started in one run.
ManyReplaces == 3
\* Factory workload: "provider" directives in the block the host parses.
MaxDirectives == 2
\* Every other workload: one "provider" directive.
OneDirective == 1

\* configs: the configurations the host may load ("any", "filled": any
\* name with every field its provider requires and a positive poll
\* interval, "complete": a supported name with the same); readers, writers: how
\* many GetUpstreams calls and how many callbacks run at the same time.
LifecycleLoad ==
    [configs |-> "any", replaces |-> FewReplaces, insts |-> FewInst,
     readers |-> 1, writers |-> 1, cleanups |-> MaxCleanups, directives |-> OneDirective]
TrafficLoad ==
    [configs |-> "complete", replaces |-> MaxReplaces, insts |-> FewInst,
     readers |-> 2, writers |-> 2, cleanups |-> 1, directives |-> OneDirective]
ContentLoad ==
    [configs |-> "complete", replaces |-> MaxReplaces, insts |-> MaxInst,
     readers |-> 1, writers |-> 1, cleanups |-> 1, directives |-> OneDirective]
ChurnLoad ==
    [configs |-> "complete", replaces |-> ManyReplaces, insts |-> FewInst,
     readers |-> 1, writers |-> 1, cleanups |-> 1, directives |-> OneDirective]
ShutdownLoad ==
    [configs |-> "complete", replaces |-> FewReplaces, insts |-> FewInst,
     readers |-> 1, writers |-> 1, cleanups |-> 1, directives |-> OneDirective]
FactoryLoad ==
    [configs |-> "filled", replaces |-> FewReplaces, insts |-> FewInst,
     readers |-> 1, writers |-> 1, cleanups |-> 1, directives |-> MaxDirectives]

\* Concurrent GetUpstreams callers (proxy request goroutines).
Readers == {"r1", "r2"}
\* Goroutines of the Nacos client that may run the subscribe callback.
Callbacks == {"cb1", "cb2"}
\* Goroutines of one kind are interchangeable: work goes to the first
\* free one.
Rank == [g \in Readers \cup Callbacks |-> IF g \in {"r1", "cb1"} THEN 1 ELSE 2]
\* Every goroutine that may replace the store: the callbacks, the host
\* inside ConsulProvider.Provision, the Consul watcher, the mDNS consumer.
Writers == Callbacks \cup {"host", "watch", "consumer"}

\* ------------------------------------------------------------------ errors

Errorf(msg, service, cause) == [msg |-> msg, service |-> service, cause |-> cause]
Nil == Errorf("nil", "", "")
NotCalled == Errorf("not called", "", "")
ErrNoProvider == Errorf("no service discovery provider is configured", "", "")
\* The error text the external libraries hand back.
ErrNet == "connection refused"
\* The error a failing notification carries.
ErrPush == Errorf(ErrNet, "", "")

\* ------------------------------------------------------------------ values

SeqsUpTo(S, n) == UNION {[1..k -> S] : k \in 0..n}

Digit == <<"0", "1", "2", "3", "4", "5", "6", "7", "8", "9">>

\* strconv.FormatUint(n, 10) and strconv.Itoa(n) for n >= 0.
RECURSIVE FormatUint(_)
FormatUint(n) ==
    IF n < 10 THEN Digit[n + 1]
    ELSE FormatUint(n \div 10) \o Digit[(n % 10) + 1]

\* The hosts of the model that hold a ':' (IPv6 literals).
ColonHosts == {"::1", "fe80::1"}

\* net.JoinHostPort: a host holding a colon is put in brackets.
JoinHostPort(host, port) ==
    IF host \in ColonHosts THEN "[" \o host \o "]:" \o port
    ELSE host \o ":" \o port

\* model.Instance values a Nacos notification may carry.
Instances ==
    { [Enable |-> TRUE,  Healthy |-> TRUE,  Ip |-> "10.0.0.1", Port |-> 8080],
      [Enable |-> TRUE,  Healthy |-> FALSE, Ip |-> "10.0.0.2", Port |-> 8080],
      [Enable |-> FALSE, Healthy |-> TRUE,  Ip |-> "10.0.0.3", Port |-> 80],
      [Enable |-> TRUE,  Healthy |-> TRUE,  Ip |-> "::1",      Port |-> 9000] }

\* consulApi.ServiceEntry values a health query may answer with.
ServiceEntries ==
    { [ServiceAddress |-> "10.0.1.1", NodeAddress |-> "10.0.0.5", ServicePort |-> 9000],
      [ServiceAddress |-> "",         NodeAddress |-> "10.0.0.5", ServicePort |-> 9000] }

\* zeroconf.ServiceEntry values the browser may stream.
MdnsEntries ==
    { [Instance |-> "a", TTL |-> 120, AddrIPv4 |-> <<"192.168.1.5">>, AddrIPv6 |-> <<>>, Port |-> 8080],
      [Instance |-> "a", TTL |-> 0,   AddrIPv4 |-> <<"192.168.1.5">>, AddrIPv6 |-> <<>>, Port |-> 8080],
      [Instance |-> "b", TTL |-> 120, AddrIPv4 |-> <<"192.168.1.6">>, AddrIPv6 |-> <<"fe80::1">>, Port |-> 80],
      [Instance |-> "b", TTL |-> 0,   AddrIPv4 |-> <<>>, AddrIPv6 |-> <<>>, Port |-> 80],
      [Instance |-> "b", TTL |-> 120, AddrIPv4 |-> <<>>, AddrIPv6 |-> <<"fe80::1">>, Port |-> 80] }

\* ------------------------------------------------------------------ factory

ProviderNames == {"nacos", "consul", "mdns"}
\* Names a configuration may give after "provider".
ConfigNames == ProviderNames \cup {"etcd"}

\* providers.NewProvider: the provider, or the error that lists the names.
NewProvider(name) ==
    IF name \in ProviderNames
    THEN [prov |-> name, err |-> Nil]
    ELSE [prov |-> "none",
          err |-> Errorf("unknown service discovery provider. supported providers are: nacos, consul, mdns",
                         "", name)]

\* ConsulProvider.PollInterval, in seconds: the default of consul.New, and
\* what caddy.ParseDuration makes of "0s" and of "-5s".
PollIntervals == {10, 0, 0 - 5}
\* The fields a provider's block can leave the provider with.  Fields a
\* provider does not have stay at their zero value.
Configs(name) ==
    IF name = "nacos"
    THEN [ServerAddr : {"", "127.0.0.1"}, ServerPort : {0, 8848}, ServiceName : {"", "web"},
          PollInterval : {0}]
    ELSE IF name = "consul"
    THEN [ServerAddr : {""}, ServerPort : {0}, ServiceName : {"", "web"},
          PollInterval : PollIntervals]
    ELSE [ServerAddr : {""}, ServerPort : {0}, ServiceName : {"", "web"}, PollInterval : {0}]

ZeroConfig == [ServerAddr |-> "", ServerPort |-> 0, ServiceName |-> "", PollInterval |-> 0]

\* ------------------------------------------------------------------ state

VARIABLES
    load,         \* the workload of the run
    provider,     \* DynamicSD.provider: "none" (nil) or the variant held
    cfg,          \* the provider's configuration fields
    heap,         \* the provider objects constructed, by address
    self,         \* the address DynamicSD.provider holds (0: nil)
    parsed,       \* UnmarshalCaddyfile has run
    hpc,          \* where the host's lifecycle goroutine stands
    ret,          \* the lifecycle call that has just returned, and its error
    calls,        \* lifecycle calls the host has made
    panicked,     \* the process died of a runtime panic
    logger,       \* provider.logger is set
    log,          \* error messages logged so far
    upstreams,    \* provider.upstreams: the slice header [arr, len]
    mu,           \* provider.mu: [writer, readers], and the writer goroutine
    hist,         \* snapshots assigned to the store, in order
    done,         \* replacements whose Unlock has returned
    started,      \* replacements started
    rd,           \* the GetUpstreams callers
    w,            \* the goroutines that replace the store
    client,       \* provider.client: "nil", "open", "closed"
    subscribed,   \* the Nacos client holds the subscription
    subscribes,   \* Subscribe calls issued
    stopChan,     \* ConsulProvider.stopChan: "nil", "open", "closed"
    cancelFunc,   \* MdnsProvider.cancelFunc is set
    ctx,          \* the mDNS browse context: "none", "live", "cancelled"
    browse,       \* where runDiscovery stands
    entries,      \* the entries channel: "none", "open", "closed"
    activeServices \* runDiscovery's map from instance to dial target

dispatchVars == <<load, provider, cfg, heap, self, parsed>>
hostVars == <<hpc, ret, calls>>
storeVars == <<upstreams, mu, hist, done, started>>
fetchVars == <<rd>>
nacosVars == <<client, subscribed, subscribes>>
consulVars == <<stopChan>>
mdnsVars == <<cancelFunc, ctx, browse, entries, activeServices>>

vars == <<dispatchVars, hostVars, panicked, logger, log, storeVars, fetchVars, w,
          nacosVars, consulVars, mdnsVars>>

\* ------------------------------------------------------------------ store

\* What a slice header shows: len elements of arr (reading past arr is
\* reading whatever the memory holds).
View(h) == [i \in 1..h.len |-> IF i <= Len(h.arr) THEN h.arr[i] ELSE "garbage"]

\* A read that does not wait for the writer.
RLockUnguarded(m) == TRUE
\* sync.RWMutex: RLock waits while a writer holds the lock.
CanRLock(m) == ~m.writer
\* A Lock that waits for the readers only.
LockIgnoringWriter(m) == m.readers = 0
\* sync.RWMutex: Lock waits for the writer and for every reader.
CanLock(m) == ~m.writer /\ m.readers = 0

\* A replacement that appends to the slice it should replace.
StoreDataAppended(h, new) == [h EXCEPT !.arr = @ \o new]
\* `p.upstreams = newUpstreams`, first word: the data pointer.
StoreData(h, new) == [h EXCEPT !.arr = new]
\* An assignment that keeps the old length when the new list is empty.
StoreLenUnlessEmpty(h, new) == IF new = <<>> THEN h ELSE [h EXCEPT !.len = Len(new)]
\* `p.upstreams = newUpstreams`, second word: the length.
StoreLen(h, new) == [h EXCEPT !.len = Len(new)]

\* A Cleanup that empties the list.
ClearedByCleanup(h) == [arr |-> <<>>, len |-> 0]
\* What a provider's Cleanup does to p.upstreams: no Cleanup assigns it.
CleanupUpstreams(h) == h

\* Snapshot number i of the run; number 0 is the empty initial one.
Snap(i) == IF i = 0 THEN <<>> ELSE hist[i]

Idle == [pc |-> "idle", new |-> <<>>]
At(pc) == [pc |-> pc, new |-> <<>>]

\* A goroutine that has built newUpstreams starts a replacement.
CanReplace == started < load.replaces

\* mu.Lock() is granted.
MuLock(t) ==
    /\ ~panicked
    /\ w[t].pc = "lock"
    /\ CanLock(mu)
    /\ mu' = [mu EXCEPT !.writer = TRUE, !.holder = t]
    /\ w' = [w EXCEPT ![t].pc = "data"]
    /\ UNCHANGED <<upstreams, hist, done, started>>
    /\ UNCHANGED <<dispatchVars, hostVars, panicked, logger, log, fetchVars,
                   nacosVars, consulVars, mdnsVars>>

AssignData(t) ==
    /\ ~panicked
    /\ w[t].pc = "data"
    /\ upstreams' = StoreData(upstreams, w[t].new)
    /\ w' = [w EXCEPT ![t].pc = "len"]
    /\ UNCHANGED <<mu, hist, done, started>>
    /\ UNCHANGED <<dispatchVars, hostVars, panicked, logger, log, fetchVars,
                   nacosVars, consulVars, mdnsVars>>

AssignLen(t) ==
    /\ ~panicked
    /\ w[t].pc = "len"
    /\ upstreams' = StoreLen(upstreams, w[t].new)
    /\ hist' = Append(hist, w[t].new)
    /\ w' = [w EXCEPT ![t].pc = "unlock"]
    /\ UNCHANGED <<mu, done, started>>
    /\ UNCHANGED <<dispatchVars, hostVars, panicked, logger, log, fetchVars,
                   nacosVars, consulVars, mdnsVars>>

\* An updateUpstreams that returns with the lock still held.
NotReleased(m) == m
\* sync.RWMutex: Unlock gives the write lock up.
Released(m) == [m EXCEPT !.writer = FALSE, !.holder = "none"]

\* mu.Unlock(): the replacement is complete.
MuUnlock(t) ==
    /\ ~panicked
    /\ w[t].pc = "unlock"
    /\ mu' = Released(mu)
    /\ done' = done + 1
    /\ w' = [w EXCEPT ![t].pc = "updated"]
    /\ UNCHANGED <<upstreams, hist, started>>
    /\ UNCHANGED <<dispatchVars, hostVars, panicked, logger, log, fetchVars,
                   nacosVars, consulVars, mdnsVars>>

\* ------------------------------------------------------------------ fetch

\* The error a provider's GetUpstreams gives for an empty list.
ErrUnavailable(p, c) ==
    IF p = "mdns"
    THEN Errorf("no mDNS instances available for service", c.ServiceName, "")
    ELSE Errorf("no healthy upstreams available for service", c.ServiceName, "")

\* A GetUpstreams without the length check.
GetUpstreamsUnchecked(p, c, h) == [list |-> View(h), err |-> Nil]
\* The body of a provider's GetUpstreams, under the read lock.
ProviderGetUpstreams(p, c, h) ==
    IF h.len = 0
    THEN [list |-> <<>>, err |-> ErrUnavailable(p, c)]
    ELSE [list |-> View(h), err |-> Nil]

NoResult == [list |-> <<>>, err |-> NotCalled]
ReaderIdle == [pc |-> "idle", since |-> 0, res |-> NoResult]

\* DynamicSD.GetUpstreams is entered: no provider is an error at once,
\* else the call goes on to the provider's RLock.
GetUpstreams(r) ==
    /\ ~panicked
    /\ rd[r].pc = "idle"
    /\ \A r2 \in Readers : Rank[r2] < Rank[r] => rd[r2].pc # "idle"
    /\ Cardinality({r2 \in Readers : rd[r2].pc # "idle"}) < load.readers
    /\ IF provider = "none"
       THEN rd' = [rd EXCEPT ![r] = [pc |-> "failed", since |-> 0,
                                     res |-> [list |-> <<>>, err |-> ErrNoProvider]]]
       ELSE rd' = [rd EXCEPT ![r] = [pc |-> "rlock", since |-> done, res |-> NoResult]]
    /\ UNCHANGED <<dispatchVars, hostVars, panicked, logger, log, storeVars, w,
                   nacosVars, consulVars, mdnsVars>>

\* RLock is granted and the result is computed from the slice header.
GetUpstreamsRLock(r) ==
    /\ ~panicked
    /\ rd[r].pc = "rlock"
    /\ CanRLock(mu)
    /\ mu' = [mu EXCEPT !.readers = @ + 1]
    /\ rd' = [rd EXCEPT ![r].pc = "runlock",
                        ![r].res = ProviderGetUpstreams(provider, cfg, upstreams)]
    /\ UNCHANGED <<upstreams, hist, done, started>>
    /\ UNCHANGED <<dispatchVars, hostVars, panicked, logger, log, w,
                   nacosVars, consulVars, mdnsVars>>

\* The deferred RUnlock runs and the call returns to the proxy.
GetUpstreamsReturn(r) ==
    /\ ~panicked
    /\ rd[r].pc \in {"runlock", "failed"}
    /\ mu' = IF rd[r].pc = "runlock" THEN [mu EXCEPT !.readers = @ - 1] ELSE mu
    /\ rd' = [rd EXCEPT ![r] = ReaderIdle]
    /\ UNCHANGED <<upstreams, hist, done, started>>
    /\ UNCHANGED <<dispatchVars, hostVars, panicked, logger, log, w,
                   nacosVars, consulVars, mdnsVars>>

\* ------------------------------------------------------------------ dispatch

\* NacosProvider.Validate.
NacosValidate(c) ==
    IF c.ServerAddr = "" THEN Errorf("nacos provider: server_addr is required", "", "")
    ELSE IF c.ServerPort = 0 THEN Errorf("nacos provider: server_port is required", "", "")
    ELSE IF c.ServiceName = "" THEN Errorf("nacos provider: service_name is required", "", "")
    ELSE Nil

\* ConsulProvider.Validate.
ConsulValidate(c) ==
    IF c.ServiceName = "" THEN Errorf("consul provider: service_name is required", "", "")
    ELSE Nil

\* MdnsProvider.Validate.
MdnsValidate(c) ==
    IF c.ServiceName = "" THEN Errorf("mdns provider: service_name is required", "", "")
    ELSE Nil

\* What Validate of provider p answers for the fields c.
ProviderValidate(p, c) ==
    IF p = "nacos" THEN NacosValidate(c)
    ELSE IF p = "consul" THEN ConsulValidate(c)
    ELSE MdnsValidate(c)

\* DynamicSD.Validate.
DynamicSDValidate(p, c) ==
    IF p = "none" THEN ErrNoProvider ELSE ProviderValidate(p, c)

\* DynamicSD.Cleanup without a provider.
DynamicSDCleanupUnselected == Nil

NoRet == [op |-> "none", err |-> NotCalled]
Returned(op, err) == [op |-> op, err |-> err]

\* A constructor that hands out one shared object.
NewShared(h) == 1
\* nacos.New, consul.New, mdns.New: `&Provider{...}` is a fresh object, at
\* an address no object of the heap h has.
New(h) == Len(h) + 1

\* The heap h with object obj at address a.
Alloc(h, a, obj) == IF a \in DOMAIN h THEN [h EXCEPT ![a] = obj] ELSE Append(h, obj)

\* The "provider" directives a block may hold: a name and the fields its
\* sub-block sets.
Directives ==
    {[name |-> n, c |-> c] : n \in ConfigNames, c \in Configs("nacos") \cup Configs("consul")}

\* The loop of DynamicSD.UnmarshalCaddyfile over the directives ds, from
\* the state st = [heap, self, err]: NewProvider constructs, d.provider
\* takes the new object, whose own UnmarshalCaddyfile sets its fields; an
\* unknown name ends the loop with the factory's error.
RECURSIVE ParseBlock(_, _)
ParseBlock(st, ds) ==
    IF ds = <<>> THEN st
    ELSE LET made == NewProvider(Head(ds).name) IN
         IF made.err # Nil THEN [st EXCEPT !.err = made.err]
         ELSE LET a == New(st.heap)
                  constructed == Alloc(st.heap, a, [kind |-> made.prov, cfg |-> ZeroConfig])
                  configured == [constructed EXCEPT ![a].cfg = Head(ds).c]
              IN ParseBlock([heap |-> configured, self |-> a, err |-> Nil], Tail(ds))

\* DynamicSD.UnmarshalCaddyfile: for each directive the factory picks the
\* provider, whose own block then sets its fields.  The host parses a
\* configuration once.
UnmarshalCaddyfile(ds) ==
    /\ ~panicked
    /\ hpc = "idle"
    /\ ~parsed
    /\ Len(ds) \in 1..load.directives
    /\ \A i \in 1..Len(ds) :
          /\ ds[i].c \in Configs(ds[i].name)
          /\ load.configs = "complete" => ds[i].name \in ProviderNames
          /\ load.configs \in {"complete", "filled"} =>
                /\ ProviderValidate(ds[i].name, ds[i].c) = Nil
                /\ ds[i].name = "consul" => ds[i].c.PollInterval > 0
    /\ parsed' = TRUE
    /\ LET end == ParseBlock([heap |-> heap, self |-> self, err |-> Nil], ds) IN
       /\ heap' = end.heap
       /\ self' = end.self
       /\ provider' = IF end.self = 0 THEN "none" ELSE end.heap[end.self].kind
       /\ cfg' = IF end.self = 0 THEN cfg ELSE end.heap[end.self].cfg
       /\ ret' = Returned("UnmarshalCaddyfile", end.err)
    /\ hpc' = "returned"
    /\ UNCHANGED <<load, calls>>
    /\ UNCHANGED <<panicked, logger, log, storeVars, fetchVars, w,
                   nacosVars, consulVars, mdnsVars>>

\* DynamicSD.Validate.  With a complete configuration the answer is nil
\* whenever it is asked, and the host asks before it provisions.
Validate ==
    /\ ~panicked
    /\ hpc = "idle"
    /\ load.configs = "complete" => calls.Provision = 0
    /\ ret' = Returned("Validate", DynamicSDValidate(provider, cfg))
    /\ hpc' = "returned"
    /\ UNCHANGED <<dispatchVars, calls, panicked, logger, log, storeVars, fetchVars, w,
                   nacosVars, consulVars, mdnsVars>>

\* DynamicSD.Provision is entered: no provider is an error; else the
\* provider's Provision starts by keeping the logger.  The host provisions
\* a module instance once.
Provision ==
    /\ ~panicked
    /\ hpc = "idle"
    /\ calls.Provision = 0
    /\ calls' = [calls EXCEPT !.Provision = 1]
    /\ IF provider = "none"
       THEN /\ ret' = Returned("Provision", ErrNoProvider)
            /\ hpc' = "returned"
            /\ UNCHANGED logger
       ELSE /\ logger' = TRUE
            /\ hpc' = IF provider = "nacos" THEN "NewNamingClient"
                      ELSE IF provider = "consul" THEN "NewClient"
                      ELSE "WithCancel"
            /\ UNCHANGED ret
    /\ UNCHANGED <<dispatchVars, panicked, log, storeVars, fetchVars, w,
                   nacosVars, consulVars, mdnsVars>>

\* DynamicSD.Cleanup is entered: no provider returns nil; else the
\* provider's Cleanup starts with logger.Info, a nil dereference when
\* Provision never ran.
Cleanup ==
    /\ ~panicked
    /\ hpc = "idle"
    /\ calls.Cleanup < load.cleanups
    /\ calls' = [calls EXCEPT !.Cleanup = @ + 1]
    /\ IF provider = "none"
       THEN /\ ret' = Returned("Cleanup", DynamicSDCleanupUnselected)
            /\ hpc' = "returned"
            /\ UNCHANGED panicked
       ELSE IF ~logger
       THEN /\ panicked' = TRUE
            /\ UNCHANGED <<hpc, ret>>
       ELSE /\ hpc' = IF provider = "nacos" THEN "nacos.Cleanup"
                      ELSE IF provider = "consul" THEN "consul.Cleanup"
                      ELSE "mdns.Cleanup"
            /\ UNCHANGED <<ret, panicked>>
    /\ UNCHANGED <<dispatchVars, logger, log, storeVars, fetchVars, w,
                   nacosVars, consulVars, mdnsVars>>

\* The host takes the result of the call and is free for the next one.
HostReturn ==
    /\ ~panicked
    /\ hpc = "returned"
    /\ hpc' = "idle"
    /\ ret' = NoRet
    /\ UNCHANGED <<dispatchVars, calls, panicked, logger, log, storeVars, fetchVars, w,
                   nacosVars, consulVars, mdnsVars>>

\* ------------------------------------------------------------------ nacos

\* A Provision that subscribes whatever NewNamingClient answered.
SubscribeRegardless(ok) == "Subscribe"
\* NacosProvider.Provision once NewNamingClient has answered: a failure
\* returns at once, else the subscription follows.
AfterNewNamingClient(ok) == IF ok THEN "Subscribe" ELSE "returned"

\* NacosProvider.Provision: clients.NewNamingClient answers.
NacosNewNamingClient(ok) ==
    /\ ~panicked
    /\ hpc = "NewNamingClient"
    /\ client' = IF ok THEN "open" ELSE "nil"
    /\ hpc' = AfterNewNamingClient(ok)
    /\ ret' = IF ok THEN ret
              ELSE Returned("Provision", Errorf("creating nacos naming client", "", ErrNet))
    /\ UNCHANGED <<subscribed, subscribes>>
    /\ UNCHANGED <<dispatchVars, calls, panicked, logger, log, storeVars, fetchVars, w,
                   consulVars, mdnsVars>>

\* subscribeToServiceChanges: client.Subscribe answers, and Provision
\* returns what it returns.
NacosSubscribe(ok) ==
    /\ ~panicked
    /\ hpc = "Subscribe"
    /\ subscribes' = subscribes + 1
    /\ subscribed' = ok
    /\ hpc' = "returned"
    /\ ret' = Returned("Provision",
                       IF ok THEN Nil
                       ELSE Errorf("subscribing to nacos service", cfg.ServiceName, ErrNet))
    /\ UNCHANGED client
    /\ UNCHANGED <<dispatchVars, calls, panicked, logger, log, storeVars, fetchVars, w,
                   consulVars, mdnsVars>>

\* A filter that looks at the Enable flag only.
EnabledOnly(service) == service.Enable
\* The callback's filter: only enabled and healthy instances.
NacosEligible(service) == service.Enable /\ service.Healthy

\* The callback's loop over the delivered instances.
RECURSIVE NacosAppend(_, _)
NacosAppend(services, newUpstreams) ==
    IF services = <<>> THEN newUpstreams
    ELSE LET service == Head(services) IN
         NacosAppend(Tail(services),
                     IF NacosEligible(service)
                     THEN Append(newUpstreams,
                                 JoinHostPort(service.Ip, FormatUint(service.Port)))
                     ELSE newUpstreams)

\* A callback that does not look at the error.
CallbackIgnoringError(services, err) == [pc |-> "lock", new |-> NacosAppend(services, <<>>)]
\* SubscribeCallback up to the lock: an error is logged and the callback
\* returns; else the new list is built from the delivered instances.
SubscribeCallback(services, err) ==
    IF err # Nil
    THEN [pc |-> "logged", new |-> <<>>]
    ELSE [pc |-> "lock", new |-> NacosAppend(services, <<>>)]

\* The Nacos client runs the callback on one of its goroutines.
NacosCallback(t, services, err) ==
    /\ ~panicked
    /\ provider = "nacos"
    /\ subscribed
    /\ client = "open"
    /\ w[t].pc = "idle"
    /\ \A t2 \in Callbacks : Rank[t2] < Rank[t] => w[t2].pc # "idle"
    /\ Cardinality({t2 \in Callbacks : w[t2].pc # "idle"}) < load.writers
    /\ Len(services) <= load.insts
    /\ err = Nil => CanReplace
    /\ w' = [w EXCEPT ![t] = SubscribeCallback(services, err)]
    /\ started' = IF w'[t].pc = "lock" THEN started + 1 ELSE started
    /\ log' = IF w'[t].pc = "logged"
              THEN log \cup {"nacos subscription callback error"} ELSE log
    /\ UNCHANGED <<upstreams, mu, hist, done>>
    /\ UNCHANGED <<dispatchVars, hostVars, panicked, logger, fetchVars,
                   nacosVars, consulVars, mdnsVars>>

\* The callback returns, after the error log or after the replacement.
NacosCallbackReturn(t) ==
    /\ ~panicked
    /\ w[t].pc \in {"logged", "updated"}
    /\ w' = [w EXCEPT ![t] = Idle]
    /\ UNCHANGED <<dispatchVars, hostVars, panicked, logger, log, storeVars, fetchVars,
                   nacosVars, consulVars, mdnsVars>>

\* NacosProvider.Cleanup after the log line: a nil client returns nil.
NacosCleanup ==
    /\ ~panicked
    /\ hpc = "nacos.Cleanup"
    /\ IF client = "nil"
       THEN /\ hpc' = "returned"
            /\ ret' = Returned("Cleanup", Nil)
       ELSE /\ hpc' = "Unsubscribe"
            /\ UNCHANGED ret
    /\ upstreams' = CleanupUpstreams(upstreams)
    /\ UNCHANGED <<dispatchVars, calls, panicked, logger, log, mu, hist,
                   done, started, fetchVars, w, nacosVars, consulVars, mdnsVars>>

\* NacosProvider.Cleanup once Unsubscribe has answered: the error is
\* returned at once, and only a clean unsubscribe goes on to CloseClient.
AfterUnsubscribe(ok) == IF ok THEN "CloseClient" ELSE "returned"

\* NacosProvider.Cleanup: client.Unsubscribe answers.
NacosUnsubscribe(ok) ==
    /\ ~panicked
    /\ hpc = "Unsubscribe"
    /\ subscribed' = IF ok THEN FALSE ELSE subscribed
    /\ hpc' = AfterUnsubscribe(ok)
    /\ ret' = IF ok THEN ret
              ELSE Returned("Cleanup",
                            Errorf("unsubscribing from nacos service", cfg.ServiceName, ErrNet))
    /\ UNCHANGED <<client, subscribes>>
    /\ UNCHANGED <<dispatchVars, calls, panicked, logger, log, storeVars, fetchVars, w,
                   consulVars, mdnsVars>>

\* NacosProvider.Cleanup: client.CloseClient, then return nil.
NacosCloseClient ==
    /\ ~panicked
    /\ hpc = "CloseClient"
    /\ client' = "closed"
    /\ subscribed' = FALSE
    /\ hpc' = "returned"
    /\ ret' = Returned("Cleanup", Nil)
    /\ UNCHANGED subscribes
    /\ UNCHANGED <<dispatchVars, calls, panicked, logger, log, storeVars, fetchVars, w,
                   consulVars, mdnsVars>>

\* ------------------------------------------------------------------ consul

\* ConsulProvider.Provision: the stop channel is made, and
\* consulApi.NewClient answers; with a client, the initial updateUpstreams
\* starts its query.
ConsulNewClient(ok) ==
    /\ ~panicked
    /\ hpc = "NewClient"
    /\ stopChan' = "open"
    /\ client' = IF ok THEN "open" ELSE "nil"
    /\ IF ok
       THEN /\ hpc' = "updateUpstreams"
            /\ w' = [w EXCEPT !["host"] = At("query")]
            /\ UNCHANGED ret
       ELSE /\ hpc' = "returned"
            /\ ret' = Returned("Provision", Errorf("creating consul client", "", ErrNet))
            /\ UNCHANGED w
    /\ UNCHANGED <<subscribed, subscribes>>
    /\ UNCHANGED <<dispatchVars, calls, panicked, logger, log, storeVars, fetchVars,
                   mdnsVars>>

\* An address that is always the node's.
NodeAddressOnly(entry) == entry.NodeAddress
\* updateUpstreams: the address of an entry, the service's own or else
\* the node's.
ConsulAddr(entry) ==
    IF entry.ServiceAddress = "" THEN entry.NodeAddress ELSE entry.ServiceAddress

\* updateUpstreams: the loop over the answered entries.
RECURSIVE ConsulAppend(_, _)
ConsulAppend(serviceEntries, newUpstreams) ==
    IF serviceEntries = <<>> THEN newUpstreams
    ELSE LET entry == Head(serviceEntries) IN
         ConsulAppend(Tail(serviceEntries),
                      Append(newUpstreams,
                             JoinHostPort(ConsulAddr(entry), FormatUint(entry.ServicePort))))

\* updateUpstreams up to the lock: a failed query returns the error; else
\* the new list is built from the answer.
ConsulUpdateUpstreams(serviceEntries, err) ==
    IF err # Nil
    THEN [pc |-> "failed", new |-> <<>>]
    ELSE [pc |-> "lock", new |-> ConsulAppend(serviceEntries, <<>>)]

\* client.Health().Service answers the query of goroutine t.
ConsulQuery(t, serviceEntries, err) ==
    /\ ~panicked
    /\ t \in {"host", "watch"}
    /\ w[t].pc = "query"
    /\ Len(serviceEntries) <= load.insts
    /\ err = Nil => CanReplace
    /\ w' = [w EXCEPT ![t] = ConsulUpdateUpstreams(serviceEntries, err)]
    /\ started' = IF w'[t].pc = "lock" THEN started + 1 ELSE started
    /\ UNCHANGED <<upstreams, mu, hist, done>>
    /\ UNCHANGED <<dispatchVars, hostVars, panicked, logger, log, fetchVars,
                   nacosVars, consulVars, mdnsVars>>

\* A Provision that does not wait for its initial updateUpstreams.
InitialFetchUnawaited(pc) == TRUE
\* ConsulProvider.Provision calls updateUpstreams and goes on when it has
\* returned, with an error or without.
InitialFetchReturned(pc) == pc \in {"failed", "updated"}

\* ConsulProvider.Provision after the initial updateUpstreams: its error
\* is logged, the watcher is launched either way, and Provision returns nil.
ConsulLaunch ==
    /\ ~panicked
    /\ hpc = "updateUpstreams"
    /\ InitialFetchReturned(w["host"].pc)
    /\ log' = IF w["host"].pc = "failed"
              THEN log \cup {"initial fetch from consul failed"} ELSE log
    /\ w' = [w EXCEPT !["host"] = Idle, !["watch"] = At("NewTicker")]
    /\ hpc' = "returned"
    /\ ret' = Returned("Provision", Nil)
    /\ UNCHANGED <<dispatchVars, calls, panicked, logger, storeVars, fetchVars,
                   nacosVars, consulVars, mdnsVars>>

\* watchServiceChanges starts: time.NewTicker(cp.PollInterval) panics on
\* an interval that is not positive; else the loop is entered.
ConsulNewTicker ==
    /\ ~panicked
    /\ w["watch"].pc = "NewTicker"
    /\ IF cfg.PollInterval <= 0
       THEN /\ panicked' = TRUE
            /\ UNCHANGED w
       ELSE /\ w' = [w EXCEPT !["watch"] = At("select")]
            /\ UNCHANGED panicked
    /\ UNCHANGED <<dispatchVars, hostVars, logger, log, storeVars, fetchVars,
                   nacosVars, consulVars, mdnsVars>>

\* watchServiceChanges: the ticker fires and updateUpstreams starts its query.
ConsulTick ==
    /\ ~panicked
    /\ w["watch"].pc = "select"
    /\ w' = [w EXCEPT !["watch"] = At("query")]
    /\ UNCHANGED <<dispatchVars, hostVars, panicked, logger, log, storeVars, fetchVars,
                   nacosVars, consulVars, mdnsVars>>

\* A loop that ends on the first failed update.
StopOnFailure(pc) == IF pc = "failed" THEN "exited" ELSE "select"
\* watchServiceChanges after updateUpstreams has returned: where the loop
\* goes on (an error is logged first).
AfterTick(pc) == "select"

ConsulWatchNext ==
    /\ ~panicked
    /\ w["watch"].pc \in {"failed", "updated"}
    /\ log' = IF w["watch"].pc = "failed"
              THEN log \cup {"failed to update upstreams from consul"} ELSE log
    /\ w' = [w EXCEPT !["watch"] = At(AfterTick(w["watch"].pc))]
    /\ UNCHANGED <<dispatchVars, hostVars, panicked, logger, storeVars, fetchVars,
                   nacosVars, consulVars, mdnsVars>>

\* A loop that looks at the stop channel only after an update.
StopCheckedAfterTick ==
    /\ ~panicked
    /\ w["watch"].pc \in {"failed", "updated"}
    /\ stopChan = "closed"
    /\ w' = [w EXCEPT !["watch"] = At("exited")]
    /\ UNCHANGED <<dispatchVars, hostVars, panicked, logger, log, storeVars, fetchVars,
                   nacosVars, consulVars, mdnsVars>>
\* watchServiceChanges: the closed stop channel is received from.
ConsulStop ==
    /\ ~panicked
    /\ w["watch"].pc = "select"
    /\ stopChan = "closed"
    /\ w' = [w EXCEPT !["watch"] = At("exited")]
    /\ UNCHANGED <<dispatchVars, hostVars, panicked, logger, log, storeVars, fetchVars,
                   nacosVars, consulVars, mdnsVars>>

\* ConsulProvider.Cleanup after the log line: close(stopChan) when it is
\* not nil; closing a closed channel panics.
ConsulCleanup ==
    /\ ~panicked
    /\ hpc = "consul.Cleanup"
    /\ IF stopChan = "closed"
       THEN /\ panicked' = TRUE
            /\ UNCHANGED <<hpc, ret, stopChan>>
       ELSE /\ stopChan' = IF stopChan = "open" THEN "closed" ELSE stopChan
            /\ hpc' = "returned"
            /\ ret' = Returned("Cleanup", Nil)
            /\ UNCHANGED panicked
    /\ upstreams' = CleanupUpstreams(upstreams)
    /\ UNCHANGED <<dispatchVars, calls, logger, log, mu, hist, done,
                   started, fetchVars, w, nacosVars, mdnsVars>>

\* ------------------------------------------------------------------ mdns

\* MdnsProvider.Provision: the cancellable context is made, runDiscovery
\* is launched, and Provision returns nil.
MdnsProvision ==
    /\ ~panicked
    /\ hpc = "WithCancel"
    /\ cancelFunc' = TRUE
    /\ ctx' = "live"
    /\ browse' = "NewResolver"
    /\ hpc' = "returned"
    /\ ret' = Returned("Provision", Nil)
    /\ UNCHANGED <<entries, activeServices>>
    /\ UNCHANGED <<dispatchVars, calls, panicked, logger, log, storeVars, fetchVars, w,
                   nacosVars, consulVars>>

EmptyMap == [i \in {} |-> ""]

\* runDiscovery: zeroconf.NewResolver answers; with a resolver, the
\* channel and the map are made and the consumer goroutine is launched.
MdnsNewResolver(ok) ==
    /\ ~panicked
    /\ browse = "NewResolver"
    /\ IF ok
       THEN /\ entries' = "open"
            /\ activeServices' = EmptyMap
            /\ w' = [w EXCEPT !["consumer"] = At("recv")]
            /\ browse' = "Browse"
            /\ UNCHANGED log
       ELSE /\ log' = log \cup {"failed to initialize mDNS resolver"}
            /\ browse' = "exited"
            /\ UNCHANGED <<entries, activeServices, w>>
    /\ UNCHANGED <<cancelFunc, ctx>>
    /\ UNCHANGED <<dispatchVars, hostVars, panicked, logger, storeVars, fetchVars,
                   nacosVars, consulVars>>

\* A runDiscovery that goes on as if browsing after Browse gave an error.
BrowseErrorIgnored(ok) == "browsing"
\* runDiscovery after resolver.Browse was called: Browse blocks while it
\* browses; when it gave an error the error is logged and the function
\* goes on to close(entries).
AfterBrowse(ok) == IF ok THEN "browsing" ELSE "close"

\* runDiscovery: resolver.Browse starts, or fails to.
MdnsBrowse(ok) ==
    /\ ~panicked
    /\ browse = "Browse"
    /\ log' = IF ok THEN log ELSE log \cup {"mDNS browse failed to start"}
    /\ browse' = AfterBrowse(ok)
    /\ UNCHANGED <<cancelFunc, ctx, entries, activeServices>>
    /\ UNCHANGED <<dispatchVars, hostVars, panicked, logger, storeVars, fetchVars, w,
                   nacosVars, consulVars>>

\* resolver.Browse returns once the context is cancelled.
MdnsBrowseReturn ==
    /\ ~panicked
    /\ browse = "browsing"
    /\ ctx = "cancelled"
    /\ browse' = "close"
    /\ UNCHANGED <<cancelFunc, ctx, entries, activeServices>>
    /\ UNCHANGED <<dispatchVars, hostVars, panicked, logger, log, storeVars, fetchVars, w,
                   nacosVars, consulVars>>

\* runDiscovery: close(entries), and the goroutine ends.
MdnsCloseEntries ==
    /\ ~panicked
    /\ browse = "close"
    /\ entries' = "closed"
    /\ browse' = "exited"
    /\ UNCHANGED <<cancelFunc, ctx, activeServices>>
    /\ UNCHANGED <<dispatchVars, hostVars, panicked, logger, log, storeVars, fetchVars, w,
                   nacosVars, consulVars>>

\* A delete that empties the map.
MapCleared(m, k) == [i \in {} |-> ""]
MapDelete(m, k) == [i \in DOMAIN m \ {k} |-> m[i]]
MapPut(m, k, v) == [i \in DOMAIN m \cup {k} |-> IF i = k THEN v ELSE m[i]]

\* The consumer's pick of an address: AddrIPv4[0], and the first IPv6
\* address when that is the empty string.  Indexing an empty AddrIPv4 is a
\* runtime panic.
MdnsAddr(entry) ==
    IF entry.AddrIPv4 = <<>> THEN "panic"
    ELSE IF entry.AddrIPv4[1] = "" /\ Len(entry.AddrIPv6) > 0 THEN entry.AddrIPv6[1]
    ELSE entry.AddrIPv4[1]

\* A consumer that does not refresh the store after a departure.
DepartureNotInstalled(m, entry) ==
    IF entry.TTL = 0
    THEN [do |-> "continue", map |-> MapDelete(m, entry.Instance)]
    ELSE IF MdnsAddr(entry) = "panic" THEN [do |-> "panic", map |-> m]
    ELSE IF MdnsAddr(entry) = "" THEN [do |-> "continue", map |-> m]
    ELSE [do |-> "update",
          map |-> MapPut(m, entry.Instance,
                         JoinHostPort(MdnsAddr(entry), FormatUint(entry.Port)))]
\* The consumer's handling of one entry: what becomes of the map, and
\* whether updateUpstreams is called.
MdnsConsume(m, entry) ==
    IF entry.TTL = 0
    THEN IF entry.Instance \in DOMAIN m
         THEN [do |-> "update", map |-> MapDelete(m, entry.Instance)]
         ELSE [do |-> "continue", map |-> m]
    ELSE IF MdnsAddr(entry) = "panic" THEN [do |-> "panic", map |-> m]
    ELSE IF MdnsAddr(entry) = "" THEN [do |-> "continue", map |-> m]
    ELSE [do |-> "update",
          map |-> MapPut(m, entry.Instance,
                         JoinHostPort(MdnsAddr(entry), FormatUint(entry.Port)))]

\* updateUpstreams: the lists a range over the map can build (Go ranges
\* over a map in no fixed order).
Flattenings(m) ==
    LET n == Cardinality(DOMAIN m)
        orders == {s \in [1..n -> DOMAIN m] : \A i, j \in 1..n : i # j => s[i] # s[j]}
    IN {[i \in 1..n |-> m[s[i]]] : s \in orders}

\* The browser hands an entry to the consumer, which handles it up to the
\* lock of updateUpstreams.
MdnsEntry(entry, new) ==
    /\ ~panicked
    /\ browse = "browsing"
    /\ entries = "open"
    /\ w["consumer"].pc = "recv"
    /\ LET c == MdnsConsume(activeServices, entry) IN
       /\ c.do = "update" => CanReplace
       /\ new \in Flattenings(c.map)
       /\ activeServices' = c.map
       /\ panicked' = (c.do = "panic")
       /\ w' = IF c.do = "update"
               THEN [w EXCEPT !["consumer"] = [pc |-> "lock", new |-> new]]
               ELSE w
       /\ started' = IF c.do = "update" THEN started + 1 ELSE started
    /\ UNCHANGED <<upstreams, mu, hist, done>>
    /\ UNCHANGED <<cancelFunc, ctx, browse, entries>>
    /\ UNCHANGED <<dispatchVars, hostVars, logger, log, fetchVars,
                   nacosVars, consulVars>>

\* updateUpstreams returns and the consumer waits for the next entry.
MdnsUpdated ==
    /\ ~panicked
    /\ w["consumer"].pc = "updated"
    /\ w' = [w EXCEPT !["consumer"] = At("recv")]
    /\ UNCHANGED <<dispatchVars, hostVars, panicked, logger, log, storeVars, fetchVars,
                   nacosVars, consulVars, mdnsVars>>

\* The consumer's range over the closed channel ends.
MdnsConsumerExit ==
    /\ ~panicked
    /\ w["consumer"].pc = "recv"
    /\ entries = "closed"
    /\ w' = [w EXCEPT !["consumer"] = At("exited")]
    /\ UNCHANGED <<dispatchVars, hostVars, panicked, logger, log, storeVars, fetchVars,
                   nacosVars, consulVars, mdnsVars>>

\* MdnsProvider.Cleanup after the log line: the context is cancelled.
MdnsCleanup ==
    /\ ~panicked
    /\ hpc = "mdns.Cleanup"
    /\ ctx' = IF cancelFunc THEN "cancelled" ELSE ctx
    /\ hpc' = "returned"
    /\ ret' = Returned("Cleanup", Nil)
    /\ UNCHANGED <<cancelFunc, browse, entries, activeServices>>
    /\ upstreams' = CleanupUpstreams(upstreams)
    /\ UNCHANGED <<dispatchVars, calls, panicked, logger, log, mu, hist,
                   done, started, fetchVars, w, nacosVars, consulVars>>

\* ------------------------------------------------------------------ system

InitWith(l) ==
    /\ load = l
    /\ provider = "none"
    /\ cfg = ZeroConfig
    /\ heap = <<>>
    /\ self = 0
    /\ parsed = FALSE
    /\ hpc = "idle"
    /\ ret = NoRet
    /\ calls = [Provision |-> 0, Cleanup |-> 0]
    /\ panicked = FALSE
    /\ logger = FALSE
    /\ log = {}
    /\ upstreams = [arr |-> <<>>, len |-> 0]
    /\ mu = [writer |-> FALSE, readers |-> 0, holder |-> "none"]
    /\ hist = <<>>
    /\ done = 0
    /\ started = 0
    /\ rd = [r \in Readers |-> ReaderIdle]
    /\ w = [t \in Writers |-> Idle]
    /\ client = "nil"
    /\ subscribed = FALSE
    /\ subscribes = 0
    /\ stopChan = "nil"
    /\ cancelFunc = FALSE
    /\ ctx = "none"
    /\ browse = "none"
    /\ entries = "none"
    /\ activeServices = EmptyMap

Init ==
    \E l \in {LifecycleLoad, TrafficLoad, ContentLoad, ChurnLoad, ShutdownLoad, FactoryLoad} :
        InitWith(l)

Host ==
    \/ \E ds \in SeqsUpTo(Directives, load.directives) : UnmarshalCaddyfile(ds)
    \/ Validate
    \/ Provision
    \/ Cleanup
    \/ HostReturn

Nacos ==
    \/ \E ok \in BOOLEAN : NacosNewNamingClient(ok)
    \/ \E ok \in BOOLEAN : NacosSubscribe(ok)
    \/ \E t \in Callbacks : \E s \in SeqsUpTo(Instances, load.insts) : \E e \in {Nil, ErrPush} :
          NacosCallback(t, s, e)
    \/ \E t \in Callbacks : NacosCallbackReturn(t)
    \/ NacosCleanup
    \/ \E ok \in BOOLEAN : NacosUnsubscribe(ok)
    \/ NacosCloseClient

Consul ==
    \/ \E ok \in BOOLEAN : ConsulNewClient(ok)
    \/ \E t \in {"host", "watch"} : \E s \in SeqsUpTo(ServiceEntries, load.insts) :
          \E e \in {Nil, ErrPush} : ConsulQuery(t, s, e)
    \/ ConsulLaunch
    \/ ConsulNewTicker
    \/ ConsulTick
    \/ ConsulWatchNext
    \/ ConsulStop
    \/ ConsulCleanup

Mdns ==
    \/ MdnsProvision
    \/ \E ok \in BOOLEAN : MdnsNewResolver(ok)
    \/ \E ok \in BOOLEAN : MdnsBrowse(ok)
    \/ MdnsBrowseReturn
    \/ MdnsCloseEntries
    \/ \E e \in MdnsEntries : \E new \in Flattenings(MdnsConsume(activeServices, e).map) :
          MdnsEntry(e, new)
    \/ MdnsUpdated
    \/ MdnsConsumerExit
    \/ MdnsCleanup

Store ==
    \/ \E t \in Writers : MuLock(t)
    \/ \E t \in Writers : AssignData(t)
    \/ \E t \in Writers : AssignLen(t)
    \/ \E t \in Writers : MuUnlock(t)

Fetch ==
    \/ \E r \in Readers : GetUpstreams(r)
    \/ \E r \in Readers : GetUpstreamsRLock(r)
    \/ \E r \in Readers : GetUpstreamsReturn(r)

\* A panic ends the process: every action needs ~panicked.
Next == Host \/ Nacos \/ Consul \/ Mdns \/ Store \/ Fetch

\* Every workload.
Spec == Init /\ [][Next]_vars
\* Any configuration, repeated Cleanup, little traffic.
SpecLifecycle == InitWith(LifecycleLoad) /\ [][Next]_vars
\* A complete configuration under concurrent changes and requests.
SpecTraffic == InitWith(TrafficLoad) /\ [][Next]_vars
\* A complete configuration and longer instance lists.
SpecContent == InitWith(ContentLoad) /\ [][Next]_vars
\* A complete configuration and more changes of membership.
SpecChurn == InitWith(ChurnLoad) /\ [][Next]_vars
\* Two provider directives in the block.
SpecFactory == InitWith(FactoryLoad) /\ [][Next]_vars

\* What the Go runtime and the libraries give the goroutines: a goroutine
\* that can run does run; sync.RWMutex lets no stream of readers starve a
\* waiting Lock; a select with a ready case that is ready ever again takes
\* it in the end (the choice among ready cases is random); a registry
\* query returns; Browse returns once its context is cancelled.  Nothing
\* makes the host call, a ticker fire or the network deliver.
Fairness ==
    /\ \A t \in Writers :
          /\ SF_vars(MuLock(t))
          /\ WF_vars(AssignData(t))
          /\ WF_vars(AssignLen(t))
          /\ WF_vars(MuUnlock(t))
    /\ \A r \in Readers : WF_vars(GetUpstreamsReturn(r))
    /\ WF_vars(\E s \in SeqsUpTo(ServiceEntries, load.insts) : \E e \in {Nil, ErrPush} :
                  ConsulQuery("watch", s, e))
    /\ WF_vars(ConsulNewTicker)
    /\ WF_vars(ConsulWatchNext)
    /\ SF_vars(ConsulStop)
    /\ WF_vars(\E ok \in BOOLEAN : MdnsNewResolver(ok))
    /\ WF_vars(\E ok \in BOOLEAN : MdnsBrowse(ok))
    /\ WF_vars(MdnsBrowseReturn)
    /\ WF_vars(MdnsCloseEntries)
    /\ WF_vars(MdnsUpdated)
    /\ WF_vars(MdnsConsumerExit)
\* A short run, cleaned up once, under fair scheduling.
SpecShutdown == InitWith(ShutdownLoad) /\ [][Next]_vars /\ Fairness

\* ------------------------------------------------------------------ properties

\* What a caller at its RUnlock has been handed as the store's content.
Seen(r) == IF rd[r].res.err = Nil THEN rd[r].res.list ELSE <<>>

\* C1: a fetch through DynamicSD with a provider selected returns either a
\* non-empty list and no error, or no list and the error that names the
\* configured service; never an empty list with no error.  A fetch on a
\* store no replacement has touched returns the error.
C1_ListOrError ==
    \A r \in Readers :
        rd[r].pc = "runlock" =>
            LET res == rd[r].res IN
            /\ \/ res.err = Nil /\ res.list # <<>>
               \/ /\ res.err \in {Errorf("no healthy upstreams available for service",
                                         cfg.ServiceName, ""),
                                  Errorf("no mDNS instances available for service",
                                         cfg.ServiceName, "")}
                  /\ res.list = <<>>
            /\ hist = <<>> => res.err # Nil
\* C1: a fetch after two replacements has returned a list of two targets.
C1_Witness ==
    \E r \in Readers :
        /\ rd[r].pc = "runlock"
        /\ rd[r].res.err = Nil
        /\ Len(rd[r].res.list) = 2
        /\ Len(hist) = 2

\* C2: whatever the interleaving of replacements and readers, a successful
\* read returns one snapshot some single replacement installed, never a
\* mix of two; and whenever no writer holds the lock the store holds, in
\* full, the snapshot of the last replacement that wrote.
C2_WholeSnapshots ==
    /\ \A r \in Readers :
          rd[r].pc = "runlock" /\ rd[r].res.err = Nil =>
              \E j \in 1..Len(hist) : rd[r].res.list = hist[j]
    /\ ~mu.writer => View(upstreams) = Snap(Len(hist))
\* C2: two callbacks have raced for the lock, one has replaced the store
\* and the other waits for the reader that holds the first one's snapshot.
C2_Witness ==
    \E t1, t2 \in Callbacks : \E r \in Readers :
        /\ w[t1].pc = "updated"
        /\ w[t2].pc = "lock"
        /\ w[t2].new # w[t1].new
        /\ rd[r].pc = "runlock"
        /\ rd[r].res.err = Nil
        /\ rd[r].res.list = w[t1].new

\* C3: a GetUpstreams call that begins after a replacement has completed
\* returns the snapshot of that replacement or of a later one, never an
\* earlier one.
C3_NoStaleRead ==
    \A r \in Readers :
        rd[r].pc = "runlock" =>
            \E j \in rd[r].since..Len(hist) : Seen(r) = Snap(j)
\* C3: a call that began after the first replacement has returned the
\* snapshot of the second, which differs from the first.
C3_Witness ==
    \E r \in Readers :
        /\ rd[r].pc = "runlock"
        /\ rd[r].since = 1
        /\ Len(hist) = 2
        /\ hist[1] # hist[2]
        /\ hist[1] # <<>>
        /\ Seen(r) = hist[2]

\* C4: with no provider selected, GetUpstreams, Validate and Cleanup each
\* fail with the "no provider configured" error.
C4_UnselectedFails ==
    provider = "none" =>
        /\ hpc = "returned" /\ ret.op \in {"Validate", "Cleanup"} => ret.err = ErrNoProvider
        /\ \A r \in Readers : rd[r].pc = "failed" => rd[r].res.err = ErrNoProvider

\* What has been started of the provider: the subscription registered,
\* the watcher launched, the discovery launched.
Started ==
    \/ subscribed
    \/ w["watch"].pc # "idle"
    \/ browse # "none"

\* C5: over any order of lifecycle calls, a provider with a required field
\* missing never has its background task launched or its subscription
\* registered.
C5_IncompleteNeverStarted ==
    provider # "none" /\ ProviderValidate(provider, cfg) # Nil => ~Started

\* C6: a Nacos notification delivered with an error, whatever instances
\* come with it, goes to the error log and returns, and from its delivery
\* to its return the store stays as it was.
C6_ErrorKeepsStore ==
    [][\A t \in Callbacks :
          /\ \A s \in SeqsUpTo(Instances, load.insts) :
                NacosCallback(t, s, ErrPush) => w'[t].pc = "logged"
          /\ w[t].pc = "logged" \/ w'[t].pc = "logged" =>
                /\ upstreams' = upstreams
                /\ hist' = hist
                /\ w[t].pc = "logged" => w'[t].pc \in {"logged", "idle"}]_vars
\* C6: the failing notification has been logged while the store holds a
\* snapshot.
C6_Witness ==
    \E t \in Callbacks :
        /\ w[t].pc = "logged"
        /\ ~mu.writer
        /\ View(upstreams) # <<>>

\* The dial target of each instance of the model, written out.
Endpoint(service) ==
    IF service.Ip = "10.0.0.1" THEN "10.0.0.1:8080"
    ELSE IF service.Ip = "10.0.0.2" THEN "10.0.0.2:8080"
    ELSE IF service.Ip = "10.0.0.3" THEN "10.0.0.3:80"
    ELSE "[::1]:9000"
\* The targets of the enabled and healthy instances of a delivery, in order.
RECURSIVE Expected(_)
Expected(services) ==
    IF services = <<>> THEN <<>>
    ELSE IF Head(services).Enable /\ Head(services).Healthy
         THEN <<Endpoint(Head(services))>> \o Expected(Tail(services))
         ELSE Expected(Tail(services))

\* C7: a Nacos notification delivered without error builds one "ip:port"
\* target for each delivered instance that is enabled and healthy, in
\* delivery order, and none for the others; once assigned, the store holds
\* exactly that list and nothing of the snapshot before.
C7_StoreIsDelivery ==
    /\ [][\A t \in Callbacks : \A s \in SeqsUpTo(Instances, load.insts) :
             NacosCallback(t, s, Nil) => w'[t].new = Expected(s)]_vars
    /\ [](\A t \in Callbacks :
             w[t].pc \in {"unlock", "updated"} => View(upstreams) = w[t].new)
\* C7: over a snapshot of two targets, the delivery of an eligible and an
\* unhealthy instance has left the store with the one target.
C7_Witness ==
    \E t \in Callbacks :
        /\ w[t].pc = "unlock"
        /\ Len(hist) = 2
        /\ hist[1] = <<"[::1]:9000", "10.0.0.1:8080">>
        /\ View(upstreams) = <<"10.0.0.1:8080">>

\* C8: a Nacos Cleanup on a constructed client has CloseClient called
\* before it returns, whether or not Unsubscribe succeeded.
C8_CloseAlwaysAttempted ==
    /\ provider = "nacos"
    /\ hpc = "returned"
    /\ ret.op = "Cleanup"
    /\ client # "nil"
    => client = "closed"

\* C9: Nacos Provision returns an error exactly when the client could not
\* be made or the subscription failed, and DynamicSD.Provision returns that
\* error as it is; after a failed construction no subscription is
\* attempted; the error of a notification is never what a lifecycle call
\* returns, and its delivery does not touch the host's call.
C9_ProvisionFailures ==
    /\ [](provider = "nacos" /\ hpc = "returned" =>
             /\ ret.err # ErrPush
             /\ ret.op = "Provision" =>
                   /\ client = "nil" =>
                         /\ ret.err = Errorf("creating nacos naming client", "", ErrNet)
                         /\ subscribes = 0
                   /\ client # "nil" /\ ~subscribed =>
                         ret.err = Errorf("subscribing to nacos service",
                                          cfg.ServiceName, ErrNet)
                   /\ client # "nil" /\ subscribed => ret.err = Nil)
    /\ [](client = "nil" => subscribes = 0)
    /\ [][\A t \in Callbacks :
             w[t].pc # "logged" /\ w'[t].pc = "logged" =>
                 ret' = ret /\ hpc' = hpc /\ panicked' = panicked]_vars
\* C9: Provision has returned the subscription's failure.
C9_Witness ==
    /\ provider = "nacos"
    /\ hpc = "returned"
    /\ ret = Returned("Provision",
                      Errorf("subscribing to nacos service", "web", ErrNet))
    /\ client = "open"
    /\ subscribes = 1

\* C10: a failed Consul query, the initial one or a tick's, takes no lock
\* and leaves the store as it was until updateUpstreams has returned;
\* after the initial one the watcher is launched all the same, and after
\* a tick's the loop is back at its select.
C10_FailedQueryKeepsStore ==
    [][/\ \A t \in {"host", "watch"} : \A s \in SeqsUpTo(ServiceEntries, load.insts) :
             ConsulQuery(t, s, ErrPush) => w'[t].pc = "failed"
       /\ \A t \in {"host", "watch"} :
             w[t].pc = "failed" \/ w'[t].pc = "failed" =>
                 upstreams' = upstreams /\ hist' = hist
       /\ w["watch"].pc = "failed" => w'["watch"].pc \in {"failed", "select"}
       /\ w["host"].pc = "failed" /\ w'["host"].pc # "failed" =>
             w'["watch"].pc = "NewTicker" /\ ret'.err = Nil]_vars
\* C10: a tick's query has failed while the store holds a snapshot.
C10_Witness ==
    /\ w["watch"].pc = "failed"
    /\ View(upstreams) # <<>>

\* C11: ConsulProvider.Provision completes one updateUpstreams before it
\* launches the watcher and before it returns; when that fetch succeeded,
\* the store holds its answer at the return and a fetch made before any
\* later replacement returns it; when it failed, Provision returns nil all
\* the same and the watcher is launched.
C11_InitialFetchFirst ==
    provider = "consul" =>
        /\ hpc \in {"NewClient", "updateUpstreams"} => w["watch"].pc = "idle"
        /\ /\ calls.Provision = 1
           /\ hpc \notin {"NewClient", "updateUpstreams"}
           /\ client = "open"
           => /\ w["watch"].pc # "idle"
              /\ w["host"].pc = "idle"
              /\ hpc = "returned" /\ ret.op = "Provision" => ret.err = Nil
              /\ "initial fetch from consul failed" \notin log =>
                    /\ Len(hist) >= 1
                    /\ started = 1 =>
                          ProviderGetUpstreams(provider, cfg, upstreams) =
                              IF hist[1] = <<>>
                              THEN [list |-> <<>>, err |-> ErrUnavailable(provider, cfg)]
                              ELSE [list |-> hist[1], err |-> Nil]
\* C11: with no replacement since the initial one and the watcher at its
\* select, a fetch has returned the initial answer.
C11_Witness ==
    \E r \in Readers :
        /\ provider = "consul"
        /\ hpc = "idle"
        /\ calls.Provision = 1
        /\ w["watch"].pc = "select"
        /\ started = 1
        /\ "initial fetch from consul failed" \notin log
        /\ rd[r].pc = "runlock"
        /\ rd[r].res = [list |-> <<"10.0.0.5:9000">>, err |-> Nil]

\* The dial target of each service entry of the model, written out.
ConsulEndpoint(entry) ==
    IF entry.ServiceAddress = "" THEN "10.0.0.5:9000" ELSE "10.0.1.1:9000"
\* The targets of the entries of an answer, in order.
ConsulExpected(serviceEntries) ==
    [i \in 1..Len(serviceEntries) |-> ConsulEndpoint(serviceEntries[i])]

\* C12: a successful Consul query builds one target per returned entry,
\* in order, from the service's address when it has one and from the
\* node's otherwise, with the service's port; once assigned, the store
\* holds exactly that list.
C12_StoreIsAnswer ==
    /\ [][\A t \in {"host", "watch"} : \A s \in SeqsUpTo(ServiceEntries, load.insts) :
             ConsulQuery(t, s, Nil) => w'[t].new = ConsulExpected(s)]_vars
    /\ [](\A t \in {"host", "watch"} :
             w[t].pc \in {"unlock", "updated"} => View(upstreams) = w[t].new)
\* C12: over the snapshot of the node-address fallback alone, a tick's
\* answer of two entries has left the store with both targets in order.
C12_Witness ==
    /\ provider = "consul"
    /\ w["watch"].pc = "unlock"
    /\ hist = << <<"10.0.0.5:9000">>, <<"10.0.1.1:9000", "10.0.0.5:9000">> >>
    /\ View(upstreams) = <<"10.0.1.1:9000", "10.0.0.5:9000">>

\* C13: once Cleanup has closed the stop channel, the Consul watcher
\* eventually returns; once it has returned it stays so, and nothing is
\* queried or replaced any more; at its select the watcher can take the
\* tick and, when the channel is closed, the stop, whichever comes first.
C13_WatcherStops ==
    /\ (provider = "consul" /\ stopChan = "closed" /\ w["watch"].pc # "idle")
          ~> (w["watch"].pc = "exited")
    /\ [][provider = "consul" /\ w["watch"].pc = "exited" =>
             /\ w'["watch"].pc = "exited"
             /\ w'["host"] = w["host"]
             /\ upstreams' = upstreams
             /\ hist' = hist
             /\ started' = started]_vars
    /\ [](provider = "consul" /\ w["watch"].pc = "select" /\ ~panicked =>
             /\ ENABLED ConsulTick
             /\ stopChan = "closed" => ENABLED ConsulStop)
\* C13: after a failed initial query and a tick whose answer was
\* installed, the stop channel is closed and the watcher has returned.
C13_Witness ==
    /\ provider = "consul"
    /\ stopChan = "closed"
    /\ w["watch"].pc = "exited"
    /\ "initial fetch from consul failed" \in log
    /\ Len(hist) = 1

\* The dial target the address choice is to give for each entry of the
\* model that has an address, written out.
MdnsEndpoint(entry) ==
    IF entry.AddrIPv4 # <<>>
    THEN IF entry.Instance = "a" THEN "192.168.1.5:8080" ELSE "192.168.1.6:80"
    ELSE "[fe80::1]:80"

\* C14: the consumer's handling of an entry with a non-zero TTL puts into
\* the active map the target of the first IPv4 address when there is one,
\* else of the first IPv6 address when there is one, and with neither
\* address skips the entry, map and store unchanged; it goes on to the
\* next entry in every case.
C14_AddressChoice ==
    [][\A e \in MdnsEntries : \A new \in Flattenings(MdnsConsume(activeServices, e).map) :
          e.TTL # 0 /\ MdnsEntry(e, new) =>
              /\ ~panicked'
              /\ IF e.AddrIPv4 # <<>> \/ e.AddrIPv6 # <<>>
                 THEN /\ e.Instance \in DOMAIN activeServices'
                      /\ activeServices'[e.Instance] = MdnsEndpoint(e)
                 ELSE /\ activeServices' = activeServices
                      /\ upstreams' = upstreams
                      /\ w' = w]_vars

\* C15: an mDNS entry with TTL zero for an instance of the active map
\* takes exactly that instance out of the map, and the list then installed
\* holds the targets of the instances left, each once; for an instance not
\* in the map it changes neither the map nor the store.
C15_Departure ==
    /\ [][\A e \in MdnsEntries : \A new \in Flattenings(MdnsConsume(activeServices, e).map) :
             e.TTL = 0 /\ MdnsEntry(e, new) =>
                 IF e.Instance \in DOMAIN activeServices
                 THEN /\ DOMAIN activeServices' = DOMAIN activeServices \ {e.Instance}
                      /\ \A k \in DOMAIN activeServices' :
                            activeServices'[k] = activeServices[k]
                      /\ w'["consumer"].pc = "lock"
                      /\ Len(w'["consumer"].new) = Cardinality(DOMAIN activeServices')
                      /\ {w'["consumer"].new[i] : i \in 1..Len(w'["consumer"].new)}
                            = {activeServices'[k] : k \in DOMAIN activeServices'}
                 ELSE /\ activeServices' = activeServices
                      /\ w' = w
                      /\ upstreams' = upstreams
                      /\ hist' = hist]_vars
    /\ [](w["consumer"].pc \in {"unlock", "updated"} =>
             View(upstreams) = w["consumer"].new)
\* C15: of two instances present, "a" has left and the store holds the
\* target of "b" alone.
C15_Witness ==
    /\ w["consumer"].pc = "unlock"
    /\ Len(hist) = 3
    /\ Len(hist[2]) = 2
    /\ DOMAIN activeServices = {"b"}
    /\ View(upstreams) = <<"192.168.1.6:80">>

\* C16: once Cleanup has cancelled the context of the mDNS provider, the
\* Browse call returns, the entries channel is closed, and runDiscovery
\* and the consumer it launched both end; no entry is handed over on the
\* closed channel, and the store is not replaced once the consumer has
\* ended.
C16_ShutdownCompletes ==
    /\ (provider = "mdns" /\ ctx = "cancelled")
          ~> /\ browse = "exited"
             /\ entries \in {"closed", "none"}
             /\ w["consumer"].pc \in {"exited", "idle"}
    /\ [][provider = "mdns" /\ (entries = "closed" \/ w["consumer"].pc = "exited") =>
             /\ activeServices' = activeServices
             /\ started' = started
             /\ w["consumer"].pc = "exited" =>
                   upstreams' = upstreams /\ w'["consumer"].pc = "exited"]_vars

\* The discovery of the mDNS provider has logged a failure to construct
\* the resolver or to start browsing.
DiscoveryFailed ==
    /\ provider = "mdns"
    /\ log \cap {"failed to initialize mDNS resolver", "mDNS browse failed to start"} # {}

\* C17: when the resolver cannot be constructed or the browse fails to
\* start, Provision has already returned success (the discovery is launched
\* in the step in which Provision returns nil), runDiscovery ends and so
\* does the consumer if it was launched, no replacement of the store is
\* ever started, and every fetch that reads the store gets the
\* unavailable error.
C17_FailedDiscovery ==
    /\ [][browse = "none" /\ browse' # "none" =>
             hpc' = "returned" /\ ret' = Returned("Provision", Nil)]_vars
    /\ [](DiscoveryFailed =>
             /\ calls.Provision > 0
             /\ browse \in {"close", "exited"}
             /\ started = 0 /\ hist = <<>> /\ View(upstreams) = <<>>
             /\ \A r \in Readers :
                   rd[r].pc = "runlock" =>
                       rd[r].res = [list |-> <<>>, err |-> ErrUnavailable("mdns", cfg)])
    /\ DiscoveryFailed ~>
          (browse = "exited" /\ w["consumer"].pc \in {"idle", "exited"})
\* C17: the browse failed to start, runDiscovery and the consumer it had
\* launched have ended, and a fetch has come back with the error.
C17_Witness ==
    /\ "mDNS browse failed to start" \in log
    /\ browse = "exited"
    /\ w["consumer"].pc = "exited"
    /\ \E r \in Readers :
          rd[r].pc = "runlock" /\ rd[r].res.err = ErrUnavailable("mdns", cfg)

\* How many directives of ds name a supported provider before the first
\* that does not.
Built(ds) ==
    LET bad == {i \in 1..Len(ds) : ds[i].name \notin {"nacos", "consul", "mdns"}}
    IN IF bad = {} THEN Len(ds) ELSE (CHOOSE i \in bad : \A j \in bad : i <= j) - 1

\* C18: a name other than nacos, consul and mdns gives no provider and the
\* error that lists exactly these three names; each of the three names
\* gives a provider of that variant; and two constructions give two
\* objects, each keeping its own fields: configuring or running the later
\* one changes nothing of the earlier one.
C18_Factory ==
    /\ [][\A ds \in SeqsUpTo(Directives, load.directives) :
             UnmarshalCaddyfile(ds) =>
                 LET n == Built(ds) IN
                 /\ Len(heap') = n
                 /\ \A i \in 1..n : heap'[i] = [kind |-> ds[i].name, cfg |-> ds[i].c]
                 /\ self' = n
                 /\ provider' = IF n = 0 THEN "none" ELSE ds[n].name
                 /\ ret'.err =
                       IF n = Len(ds) THEN Nil
                       ELSE Errorf("unknown service discovery provider. supported providers are: nacos, consul, mdns",
                                   "", ds[n + 1].name)]_vars
    /\ [][parsed => heap' = heap /\ self' = self]_vars
\* C18: two providers were constructed, of different variants; the later
\* one has been provisioned and has had its store replaced.
C18_Witness ==
    /\ Len(heap) = 2
    /\ heap[1].kind # heap[2].kind
    /\ self = 2
    /\ hist # <<>>

InNetworkCall(g) ==
    \/ /\ g = "host"
       /\ \/ hpc \in {"NewNamingClient", "Subscribe", "Unsubscribe", "CloseClient", "NewClient"}
          \/ w["host"].pc = "query"
    \/ g = "watch" /\ w["watch"].pc = "query"
\* Some network call of the provider is in progress, the Browse of
\* runDiscovery included.
NetworkCallInProgress ==
    \/ \E g \in {"host", "watch"} : InNetworkCall(g)
    \/ browse \in {"Browse", "browsing"}

\* C20, as stated: in no reachable state is the write lock of the store
\* held while a network call of the provider is in progress.
C20_NoLockDuringCalls == ~(mu.writer /\ NetworkCallInProgress)

\* C20, amended: the goroutine that holds the write lock of the store is
\* in no network call: it took the lock with its snapshot already built,
\* does nothing under the lock but assign that snapshot, and can always
\* take its next step up to the Unlock, so no reader waits for a network
\* call; a goroutine holding the read lock is inside GetUpstreams, which
\* makes no call.
C20_NoLockAcrossCalls ==
    /\ [](mu.writer =>
             /\ mu.holder \in Writers
             /\ ~InNetworkCall(mu.holder)
             /\ w[mu.holder].pc \in {"data", "len", "unlock"}
             /\ ~panicked =>
                   ENABLED (AssignData(mu.holder) \/ AssignLen(mu.holder) \/ MuUnlock(mu.holder)))
    /\ [](mu.readers = Cardinality({r \in Readers : rd[r].pc = "runlock"}))
    /\ [][\A t \in Writers :
             /\ MuLock(t) => w'[t].new = w[t].new
             /\ mu.writer /\ mu.holder = t /\ mu'.writer =>
                   /\ w'[t].new = w[t].new
                   /\ View(upstreams') \in {View(upstreams), w[t].new,
                                            View(StoreData(upstreams, w[t].new))}]_vars
\* C20: the Consul watcher holds the write lock with its snapshot
\* assigned, after its health query has returned.
C20_Witness ==
    /\ mu.writer
    /\ mu.holder = "watch"
    /\ w["watch"].pc = "unlock"
    /\ View(upstreams) = w["watch"].new

\* The goroutines that stand between the Lock and the Unlock of a
\* replacement.
Replacing == {t \in Writers : w[t].pc \in {"data", "len", "unlock"}}
\* The Consul goroutines inside updateUpstreams, or just back from it.
Fetching ==
    {t \in {"host", "watch"} :
        w[t].pc \in {"query", "lock", "data", "len", "unlock", "failed", "updated"}}

\* C21: the replacements of the store come one after the other: at most
\* one goroutine is between Lock and Unlock, the store changes only in
\* the hands of that goroutine, and a replacement assigns only when every
\* earlier one has unlocked.  For Consul at most one fetch-and-install is
\* in progress: the watcher starts only after the initial one is back,
\* and a query is answered while no other answer waits to be installed, so
\* the lists are installed in the order of the queries.
C21_ReplacementsInOrder ==
    /\ [](/\ Cardinality(Replacing) <= 1
          /\ mu.writer <=> Replacing # {}
          /\ Len(hist) = done + Cardinality({t \in Replacing : w[t].pc = "unlock"}))
    /\ [][upstreams' # upstreams =>
             /\ mu.writer /\ Replacing = {mu.holder}
             /\ w[mu.holder].pc \in {"data", "len"}
             /\ hist' # hist => Len(hist) = done]_vars
    /\ [](provider = "consul" =>
             /\ Cardinality(Fetching) <= 1
             /\ w["watch"].pc # "idle" => w["host"].pc = "idle")
    /\ [][\A t \in {"host", "watch"} : \A s \in SeqsUpTo(ServiceEntries, load.insts) :
             ConsulQuery(t, s, Nil) =>
                 /\ ~mu.writer
                 /\ Fetching = {t}
                 /\ w'[t] = [pc |-> "lock", new |-> ConsulExpected(s)]]_vars
\* C21: one Nacos callback has assigned its list and still holds the
\* lock while a second one, with its list built, waits for it.
C21_Witness ==
    \E t1, t2 \in Callbacks :
        /\ w[t1].pc = "unlock"
        /\ w[t2].pc = "lock"
        /\ mu.holder = t1
        /\ Len(hist) = done + 1

\* C22: a Nacos notification or a Consul answer that comes without error
\* and yields no target (nothing delivered, or nothing enabled and healthy)
\* starts a replacement like any other; once assigned the store is empty,
\* whatever it held, and a fetch that reads it gets the unavailable error
\* and no list.
C22_EmptyReplaces ==
    /\ [][/\ \A t \in Callbacks : \A s \in SeqsUpTo(Instances, load.insts) :
                Expected(s) = <<>> /\ NacosCallback(t, s, Nil) =>
                    w'[t] = [pc |-> "lock", new |-> <<>>]
          /\ \A t \in {"host", "watch"} :
                ConsulQuery(t, <<>>, Nil) => w'[t] = [pc |-> "lock", new |-> <<>>]]_vars
    /\ [](\A t \in Callbacks \cup {"host", "watch"} :
             w[t].pc \in {"unlock", "updated"} /\ w[t].new = <<>> =>
                 /\ View(upstreams) = <<>>
                 /\ hist[Len(hist)] = <<>>)
    /\ [][\A r \in Readers :
             /\ provider \in {"nacos", "consul"}
             /\ hist # <<>> /\ hist[Len(hist)] = <<>>
             /\ GetUpstreamsRLock(r)
             => rd'[r].res = [list |-> <<>>,
                              err |-> Errorf("no healthy upstreams available for service",
                                             cfg.ServiceName, "")]]_vars
\* C22: the store held a target, an empty list was installed over it, and
\* a fetch has come back with the error.
C22_Witness ==
    /\ provider \in {"nacos", "consul"}
    /\ Len(hist) = 2
    /\ hist[1] # <<>>
    /\ hist[2] = <<>>
    /\ \E r \in Readers : rd[r].pc = "runlock" /\ rd[r].res.err # Nil

\* C23: a second or later Cleanup of a Consul or mDNS provider whose
\* Provision returned nil (the watcher, the discovery was launched)
\* returns nil, does not end the process, and leaves the provider stopped.
C23_CleanupRepeatable ==
    [][/\ calls.Cleanup > 1
       /\ \/ ConsulCleanup /\ w["watch"].pc # "idle"
          \/ MdnsCleanup /\ cancelFunc
       => /\ ~panicked'
          /\ hpc' = "returned"
          /\ ret' = Returned("Cleanup", Nil)
          /\ provider = "consul" => stopChan' = "closed"
          /\ provider = "mdns" => ctx' = "cancelled"]_vars

\* C24: whatever poll interval the block gave and Validate let pass (zero
\* and negative ones too), the watcher that Provision launched enters its
\* loop, and leaves it only when the stop channel is closed; it does not
\* end the process.
C24_LoopForAnyInterval ==
    /\ [][provider = "consul" /\ ConsulValidate(cfg) = Nil /\ ConsulNewTicker =>
             ~panicked' /\ w'["watch"].pc = "select"]_vars
    /\ [][/\ provider = "consul"
          /\ w["watch"].pc \notin {"idle", "exited"}
          /\ w'["watch"].pc = "exited"
          => stopChan = "closed"]_vars

\* C25: no step of a Cleanup, of any of the three providers, changes the
\* store or starts a replacement, so the snapshot held before the call is
\* the one held after it; a fetch that reads the store once a Cleanup has
\* returned gets the last installed list and no error, or the unavailable
\* error when that list is empty or none was installed.
C25_CleanupKeepsStore ==
    /\ [][\/ Cleanup \/ NacosCleanup \/ ConsulCleanup \/ MdnsCleanup \/ NacosCloseClient
          \/ \E ok \in BOOLEAN : NacosUnsubscribe(ok)
          => /\ upstreams' = upstreams
             /\ hist' = hist
             /\ started' = started
             /\ mu' = mu]_vars
    /\ [][\A r \in Readers :
             /\ provider \in ProviderNames
             /\ calls.Cleanup > 0 /\ hpc = "idle"
             /\ GetUpstreamsRLock(r)
             => rd'[r].res =
                   IF Snap(Len(hist)) = <<>>
                   THEN [list |-> <<>>, err |-> ErrUnavailable(provider, cfg)]
                   ELSE [list |-> Snap(Len(hist)), err |-> Nil]]_vars
\* C25: Cleanup has returned nil, and a fetch made after it has returned
\* the list installed before it.
C25_Witness ==
    \E r \in Readers :
        /\ provider \in ProviderNames
        /\ calls.Cleanup = 1
        /\ hpc = "idle"
        /\ rd[r].pc = "runlock"
        /\ rd[r].since = 1
        /\ rd[r].res.err = Nil
        /\ rd[r].res.list = hist[1]
        /\ (stopChan = "closed" \/ ctx = "cancelled" \/ client = "closed")

====
